---- MODULE Spec2Model ----
(***************************************************************************)
(* State-machine model of the task store of cli-based-task-manager:        *)
(* Task (src/src/task.rs) and TaskManager (src/src/manager.rs), with the   *)
(* storage file the manager loads from and saves to.                       *)
(*                                                                         *)
(* Strings are TLA+ strings (Len counts characters, as the validator's     *)
(* length rule does).  Option<T> is a sequence of length 0 or 1.           *)
(* Timestamps are ticks of a non-decreasing clock.  A Uuid is modelled by  *)
(* its canonical string, which is also the key of the task map.            *)
(***************************************************************************)
EXTENDS Integers, Sequences, FiniteSets, TLC

VARIABLES
    tasks,   \* TaskManager.tasks : HashMap<String, Task>, a function on its keys
    dirty,   \* TaskManager.dirty : AtomicBool
    file,    \* what is at config.storage_path
    now,     \* the last value Utc::now() returned
    calls,   \* how many calls have been made on the manager
    ret      \* the last manager call: its name, its arguments, its result

vars == <<tasks, dirty, file, now, calls, ret>>

----------------------------------------------------------------------------
(* Bounds of the model *)

\* a manager receives at most MaxCalls calls
MaxCalls == 3
\* Utc::now() returns values in 0..MaxClock
MaxClock == 1
\* import_tasks is called with lists of at most MaxImport tasks
MaxImport == 2

(* Program constants *)

\* #[validate(length(min = 1, max = 200))] on Task.title
MinTitleLen == 1
MaxTitleLen == 200
\* #[validate(length(max = 2000))] on Task.description
MaxDescriptionLen == 2000
\* #[validate(length(max = 50))] on Task.category
MaxCategoryLen == 50

----------------------------------------------------------------------------
(* Values *)

None == <<>>
Some(x) == <<x>>
IsSome(o) == o # <<>>

RECURSIVE Rep(_, _)
\* the string of n copies of c
Rep(c, n) ==
    IF n = 0 THEN ""
    ELSE IF n % 2 = 0 THEN LET half == Rep(c, n \div 2) IN half \o half
    ELSE c \o Rep(c, n - 1)

\* the Uuids that occur: those Uuid::new_v4() draws and those of imported tasks
Uuids == {"u1", "u2"}

Priority == {"Low", "Medium", "High", "Critical"}
TaskStatus == {"Todo", "InProgress", "Done", "Cancelled"}

\* UpdateValue<T>
Keep == <<"Keep">>
Clear == <<"Clear">>
Set(x) == <<"Set", x>>

\* the values Utc::now() can return next: the clock does not go back
ClockReads(t) == {u \in {t, t + 1} : u <= MaxClock}

----------------------------------------------------------------------------
(* Task, src/src/task.rs *)

\* Task::with_details, reading the clock as t and drawing the Uuid id
with_details(id, t, title, description, priority, category, due_date) ==
    [id |-> id, title |-> title, description |-> description,
     priority |-> priority, status |-> "Todo", category |-> category,
     due_date |-> due_date, created_at |-> t, updated_at |-> t,
     completed_at |-> None]

\* Task::new
Task_new(id, t, title) ==
    [id |-> id, title |-> title, description |-> None,
     priority |-> "Medium", status |-> "Todo", category |-> None,
     due_date |-> None, created_at |-> t, updated_at |-> t,
     completed_at |-> None]

\* the title rule with its upper limit exclusive
TitleOk_Exclusive(task) ==
    Len(task.title) >= MinTitleLen /\ Len(task.title) < MaxTitleLen

\* the three length rules of #[derive(Validate)]
TitleOk(task) ==
    Len(task.title) >= MinTitleLen /\ Len(task.title) <= MaxTitleLen
DescriptionOk(task) ==
    IsSome(task.description) => Len(task.description[1]) <= MaxDescriptionLen
CategoryOk(task) ==
    IsSome(task.category) => Len(task.category[1]) <= MaxCategoryLen

\* task.validate().is_ok()
validate(task) == TitleOk(task) /\ DescriptionOk(task) /\ CategoryOk(task)

\* a complete that sets the status and leaves completed_at as it was
complete_NoStamp(task, t1, t2) ==
    [task EXCEPT !.status = "Done", !.updated_at = t2]

\* Task::complete, whose two clock reads return t1 then t2
complete(task, t1, t2) ==
    [task EXCEPT !.status = "Done", !.completed_at = Some(t1), !.updated_at = t2]

\* a start that also forgets when the task was completed
start_ClearsCompleted(task, t) ==
    [task EXCEPT !.status = "InProgress", !.updated_at = t, !.completed_at = None]

\* Task::start
start(task, t) == [task EXCEPT !.status = "InProgress", !.updated_at = t]

\* a cancel that stamps updated_at with the tick before the task's creation
cancel_Backdated(task, t) ==
    [task EXCEPT !.status = "Cancelled", !.updated_at = task.created_at - 1]

\* Task::cancel
cancel(task, t) == [task EXCEPT !.status = "Cancelled", !.updated_at = t]

\* an UpdateValue under which Keep erases the field as Clear does
ApplyUpdateValue_KeepClears(old, uv) ==
    IF uv[1] = "Set" THEN Some(uv[2]) ELSE None

\* one Option field under an UpdateValue
ApplyUpdateValue(old, uv) ==
    IF uv[1] = "Set" THEN Some(uv[2])
    ELSE IF uv[1] = "Clear" THEN None
    ELSE old

\* an update that stamps created_at as well as updated_at
update_Recreates(task, t, title, description, priority, category, due_date) ==
    [task EXCEPT
        !.title = IF IsSome(title) THEN title[1] ELSE @,
        !.description = ApplyUpdateValue(@, description),
        !.priority = IF IsSome(priority) THEN priority[1] ELSE @,
        !.category = ApplyUpdateValue(@, category),
        !.due_date = ApplyUpdateValue(@, due_date),
        !.created_at = t,
        !.updated_at = t]

\* Task::update
update(task, t, title, description, priority, category, due_date) ==
    [task EXCEPT
        !.title = IF IsSome(title) THEN title[1] ELSE @,
        !.description = ApplyUpdateValue(@, description),
        !.priority = IF IsSome(priority) THEN priority[1] ELSE @,
        !.category = ApplyUpdateValue(@, category),
        !.due_date = ApplyUpdateValue(@, due_date),
        !.updated_at = t]

----------------------------------------------------------------------------
(* The storage file: serde_json of Vec<Task> *)

\* #[serde(rename_all = "lowercase")] on Priority and TaskStatus
Lowercase(name) ==
    CASE name = "Low" -> "low"
      [] name = "Medium" -> "medium"
      [] name = "High" -> "high"
      [] name = "Critical" -> "critical"
      [] name = "Todo" -> "todo"
      [] name = "InProgress" -> "inprogress"
      [] name = "Done" -> "done"
      [] name = "Cancelled" -> "cancelled"

\* chrono's serde form of DateTime<Utc>: an RFC 3339 string
Rfc3339(t) == "1970-01-01T00:00:0" \o ToString(t) \o "Z"
IsRfc3339(s) == \E t \in 0..9 : Rfc3339(t) = s
ParseRfc3339(s) == CHOOSE t \in 0..9 : Rfc3339(t) = s

\* Option<DateTime<Utc>> as JSON: null or the string
OptRfc3339(o) == IF IsSome(o) THEN Some(Rfc3339(o[1])) ELSE None

\* Serialize for Task: one JSON object
ToJson(task) ==
    [id |-> task.id, title |-> task.title, description |-> task.description,
     priority |-> Lowercase(task.priority), status |-> Lowercase(task.status),
     category |-> task.category, due_date |-> OptRfc3339(task.due_date),
     created_at |-> Rfc3339(task.created_at),
     updated_at |-> Rfc3339(task.updated_at),
     completed_at |-> OptRfc3339(task.completed_at)]

\* whether Deserialize for Task accepts the JSON object
JsonOk(rec) ==
    /\ \E p \in Priority : Lowercase(p) = rec.priority
    /\ \E s \in TaskStatus : Lowercase(s) = rec.status
    /\ IsSome(rec.due_date) => IsRfc3339(rec.due_date[1])
    /\ IsRfc3339(rec.created_at)
    /\ IsRfc3339(rec.updated_at)
    /\ IsSome(rec.completed_at) => IsRfc3339(rec.completed_at[1])

\* Deserialize for Task
FromJson(rec) ==
    [id |-> rec.id, title |-> rec.title, description |-> rec.description,
     priority |-> CHOOSE p \in Priority : Lowercase(p) = rec.priority,
     status |-> CHOOSE s \in TaskStatus : Lowercase(s) = rec.status,
     category |-> rec.category,
     due_date |-> IF IsSome(rec.due_date)
                  THEN Some(ParseRfc3339(rec.due_date[1])) ELSE None,
     created_at |-> ParseRfc3339(rec.created_at),
     updated_at |-> ParseRfc3339(rec.updated_at),
     completed_at |-> IF IsSome(rec.completed_at)
                      THEN Some(ParseRfc3339(rec.completed_at[1])) ELSE None]

\* no file at the path; a file that is not a JSON array of tasks; a JSON array
Absent == [kind |-> "absent", recs |-> <<>>]
Garbage == [kind |-> "garbage", recs |-> <<>>]
JsonFile(recs) == [kind |-> "json", recs |-> recs]

----------------------------------------------------------------------------
(* HashMap<String, Task> *)

EmptyMap == <<>>

\* HashMap::insert
Insert(m, k, v) == [x \in DOMAIN m \cup {k} |-> IF x = k THEN v ELSE m[x]]

\* HashMap::remove / retain
Restrict(m, keys) == [x \in keys |-> m[x]]

\* the orders in which HashMap::values() can yield the tasks
ValueOrders(m) ==
    LET n == Cardinality(DOMAIN m)
        keyOrders == {s \in [1..n -> DOMAIN m] :
                         \A i, j \in 1..n : s[i] = s[j] => i = j}
    IN  {[i \in 1..n |-> m[s[i]]] : s \in keyOrders}

\* what each manager call leaves in ret: its name, its arguments, the kind of
\* its result (Ok or the TaskError variant) and the value of an Ok
Ret(op, args, kind, val) == [op |-> op, args |-> args, kind |-> kind, val |-> val]

----------------------------------------------------------------------------
(* The inputs the calls are made with *)

\* the titles add_task is called with: of length 0 and of length 1
Titles == {"", "a"}

\* the arguments of add_task_detailed: <<title, description, priority, category, due_date>>
AddInputs ==
    { <<"a", None, None, None, None>>,
      <<Rep("a", MaxTitleLen), None, Some("High"), Some(Rep("c", MaxCategoryLen)), Some(0)>>,
      <<Rep("a", MaxTitleLen + 1), None, Some("High"), None, None>>,
      <<"a", Some(Rep("d", MaxDescriptionLen + 1)), None, None, None>>,
      <<"a", None, None, Some(Rep("c", MaxCategoryLen + 1)), None>> }

\* the arguments of update_task after the id:
\* <<title, description, priority, category, due_date>>
UpdateInputs ==
    { <<Some(""), Keep, None, Keep, Keep>>,
      <<Some(Rep("a", MaxTitleLen + 1)), Keep, None, Keep, Keep>>,
      <<None, Keep, None, Set(Rep("c", MaxCategoryLen + 1)), Keep>>,
      <<Some("b"), Keep, Some("Low"), Set("errands"), Set(1)>>,
      <<None, Set("notes"), None, Clear, Clear>>,
      <<None, Clear, None, Keep, Keep>> }

\* a task of another store, as an import file holds it
ImportGood(id) ==
    [id |-> id, title |-> "imported", description |-> Some("from a file"),
     priority |-> "Critical", status |-> "Done", category |-> None,
     due_date |-> None, created_at |-> 0, updated_at |-> 0,
     completed_at |-> Some(0)]
\* the same with an empty title
ImportBad(id) == [ImportGood(id) EXCEPT !.title = ""]
\* the same from a file whose record has updated_at before created_at
ImportInverted(id) == [ImportGood(id) EXCEPT !.created_at = 1]

ImportPool == {ImportGood("u1"), ImportInverted("u2"), ImportBad("u2")}
ImportLists == UNION {[1..n -> ImportPool] : n \in 0..MaxImport}

\* what the storage path holds when the process starts
InitFiles == {Absent, Garbage, JsonFile(<<ToJson(ImportGood("u1"))>>)}

----------------------------------------------------------------------------
(* TaskManager, src/src/manager.rs *)

\* TaskManager::with_config
Init ==
    /\ tasks = EmptyMap
    /\ dirty = FALSE
    /\ file \in InitFiles
    /\ now = 0
    /\ calls = 0
    /\ ret = Ret("with_config", None, "Ok", None)

RECURSIVE InsertAll(_, _)
\* for task in loaded_tasks { self.tasks.insert(task.id.to_string(), task) }
InsertAll(m, list) ==
    IF list = <<>> THEN m
    ELSE InsertAll(Insert(m, Head(list).id, Head(list)), Tail(list))

\* TaskManager::load
load ==
    /\ UNCHANGED <<file, now>>
    /\ IF file.kind = "absent"
       THEN /\ ret' = Ret("load", None, "Ok", None)
            /\ UNCHANGED <<tasks, dirty>>
       ELSE \/ \* fs::read_to_string fails
               /\ ret' = Ret("load", None, "IoError", None)
               /\ UNCHANGED <<tasks, dirty>>
            \/ \* serde_json::from_str fails
               /\ file.kind = "garbage" \/ \E i \in DOMAIN file.recs : ~JsonOk(file.recs[i])
               /\ ret' = Ret("load", None, "JsonError", None)
               /\ UNCHANGED <<tasks, dirty>>
            \/ /\ file.kind = "json"
               /\ \A i \in DOMAIN file.recs : JsonOk(file.recs[i])
               /\ tasks' = InsertAll(EmptyMap, [i \in DOMAIN file.recs |-> FromJson(file.recs[i])])
               /\ dirty' = FALSE
               /\ ret' = Ret("load", None, "Ok", None)

\* save that writes whether or not dirty is set
save_Always ==
    /\ UNCHANGED <<tasks, dirty, now>>
    /\ \/ /\ \E order \in ValueOrders(tasks) :
                  file' = JsonFile([i \in DOMAIN order |-> ToJson(order[i])])
          /\ ret' = Ret("save", None, "Ok", None)
       \/ /\ file' \in {file, Garbage}
          /\ ret' = Ret("save", None, "IoError", None)

\* TaskManager::save
save ==
    /\ UNCHANGED <<tasks, dirty, now>>
    /\ IF ~dirty
       THEN /\ ret' = Ret("save", None, "Ok", None)
            /\ UNCHANGED file
       ELSE \/ \* fs::write replaces the file
               /\ \E order \in ValueOrders(tasks) :
                      file' = JsonFile([i \in DOMAIN order |-> ToJson(order[i])])
               /\ ret' = Ret("save", None, "Ok", None)
            \/ \* create_dir_all or fs::write fails: the file is as it was, or cut short
               /\ file' \in {file, Garbage}
               /\ ret' = Ret("save", None, "IoError", None)

\* TaskManager::add_task
add_task(title) ==
    \E id \in Uuids \ DOMAIN tasks, t \in ClockReads(now) :
        LET task == Task_new(id, t, title) IN
        /\ now' = t
        /\ UNCHANGED file
        /\ IF ~validate(task)
           THEN /\ ret' = Ret("add_task", <<title>>, "ValidationError", None)
                /\ UNCHANGED <<tasks, dirty>>
           ELSE /\ tasks' = Insert(tasks, id, task)
                /\ dirty' = TRUE
                /\ ret' = Ret("add_task", <<title>>, "Ok", Some(id))

\* TaskManager::add_task_detailed
add_task_detailed(title, description, priority, category, due_date) ==
    \E id \in Uuids \ DOMAIN tasks, t \in ClockReads(now) :
        LET task == with_details(id, t, title, description,
                                 IF IsSome(priority) THEN priority[1] ELSE "Medium",
                                 category, due_date)
            args == <<title, description, priority, category, due_date>> IN
        /\ now' = t
        /\ UNCHANGED file
        /\ IF ~validate(task)
           THEN /\ ret' = Ret("add_task_detailed", args, "ValidationError", None)
                /\ UNCHANGED <<tasks, dirty>>
           ELSE /\ tasks' = Insert(tasks, id, task)
                /\ dirty' = TRUE
                /\ ret' = Ret("add_task_detailed", args, "Ok", Some(id))

\* an update_task that marks the store dirty before it validates
update_task_DirtyFirst(id, title, description, priority, category, due_date) ==
    LET args == <<id, title, description, priority, category, due_date>> IN
    /\ UNCHANGED file
    /\ IF id \notin DOMAIN tasks
       THEN /\ ret' = Ret("update_task", args, "TaskNotFound", None)
            /\ UNCHANGED <<tasks, dirty, now>>
       ELSE \E t \in ClockReads(now) :
            LET task == update(tasks[id], t, title, description, priority,
                               category, due_date) IN
            /\ now' = t
            /\ tasks' = [tasks EXCEPT ![id] = task]
            /\ dirty' = TRUE
            /\ ret' = Ret("update_task", args,
                          IF validate(task) THEN "Ok" ELSE "ValidationError", None)

\* TaskManager::update_task
update_task(id, title, description, priority, category, due_date) ==
    LET args == <<id, title, description, priority, category, due_date>> IN
    /\ UNCHANGED file
    /\ IF id \notin DOMAIN tasks
       THEN /\ ret' = Ret("update_task", args, "TaskNotFound", None)
            /\ UNCHANGED <<tasks, dirty, now>>
       ELSE \E t \in ClockReads(now) :
            LET task == update(tasks[id], t, title, description, priority,
                               category, due_date) IN
            /\ now' = t
            /\ tasks' = [tasks EXCEPT ![id] = task]
            /\ IF ~validate(task)
               THEN /\ ret' = Ret("update_task", args, "ValidationError", None)
                    /\ UNCHANGED dirty
               ELSE /\ dirty' = TRUE
                    /\ ret' = Ret("update_task", args, "Ok", None)

\* a delete_task that sets dirty before it looks the id up
delete_task_DirtyFirst(id) ==
    /\ UNCHANGED <<file, now>>
    /\ dirty' = TRUE
    /\ IF id \notin DOMAIN tasks
       THEN /\ ret' = Ret("delete_task", <<id>>, "TaskNotFound", None)
            /\ UNCHANGED tasks
       ELSE /\ tasks' = Restrict(tasks, DOMAIN tasks \ {id})
            /\ ret' = Ret("delete_task", <<id>>, "Ok", Some(tasks[id]))

\* TaskManager::delete_task
delete_task(id) ==
    /\ UNCHANGED <<file, now>>
    /\ IF id \notin DOMAIN tasks
       THEN /\ ret' = Ret("delete_task", <<id>>, "TaskNotFound", None)
            /\ UNCHANGED <<tasks, dirty>>
       ELSE /\ tasks' = Restrict(tasks, DOMAIN tasks \ {id})
            /\ dirty' = TRUE
            /\ ret' = Ret("delete_task", <<id>>, "Ok", Some(tasks[id]))

\* complete_task that also completes a task that is Done
complete_task_Unguarded(id) ==
    /\ UNCHANGED file
    /\ IF id \notin DOMAIN tasks
       THEN /\ ret' = Ret("complete_task", <<id>>, "TaskNotFound", None)
            /\ UNCHANGED <<tasks, dirty, now>>
       ELSE \E t1 \in ClockReads(now) : \E t2 \in ClockReads(t1) :
            /\ now' = t2
            /\ tasks' = [tasks EXCEPT ![id] = complete(@, t1, t2)]
            /\ dirty' = TRUE
            /\ ret' = Ret("complete_task", <<id>>, "Ok", None)

\* TaskManager::complete_task
complete_task(id) ==
    /\ UNCHANGED file
    /\ IF id \notin DOMAIN tasks
       THEN /\ ret' = Ret("complete_task", <<id>>, "TaskNotFound", None)
            /\ UNCHANGED <<tasks, dirty, now>>
       ELSE IF tasks[id].status = "Done"
       THEN /\ ret' = Ret("complete_task", <<id>>, "OperationNotAllowed", None)
            /\ UNCHANGED <<tasks, dirty, now>>
       ELSE \E t1 \in ClockReads(now) : \E t2 \in ClockReads(t1) :
            /\ now' = t2
            /\ tasks' = [tasks EXCEPT ![id] = complete(@, t1, t2)]
            /\ dirty' = TRUE
            /\ ret' = Ret("complete_task", <<id>>, "Ok", None)

\* a start_task that refuses a task that is Done or Cancelled
start_task_Guarded(id) ==
    /\ UNCHANGED file
    /\ IF id \notin DOMAIN tasks
       THEN /\ ret' = Ret("start_task", <<id>>, "TaskNotFound", None)
            /\ UNCHANGED <<tasks, dirty, now>>
       ELSE IF tasks[id].status \in {"Done", "Cancelled"}
       THEN /\ ret' = Ret("start_task", <<id>>, "OperationNotAllowed", None)
            /\ UNCHANGED <<tasks, dirty, now>>
       ELSE \E t \in ClockReads(now) :
            /\ now' = t
            /\ tasks' = [tasks EXCEPT ![id] = start(@, t)]
            /\ dirty' = TRUE
            /\ ret' = Ret("start_task", <<id>>, "Ok", None)

\* TaskManager::start_task
start_task(id) ==
    /\ UNCHANGED file
    /\ IF id \notin DOMAIN tasks
       THEN /\ ret' = Ret("start_task", <<id>>, "TaskNotFound", None)
            /\ UNCHANGED <<tasks, dirty, now>>
       ELSE \E t \in ClockReads(now) :
            /\ now' = t
            /\ tasks' = [tasks EXCEPT ![id] = start(@, t)]
            /\ dirty' = TRUE
            /\ ret' = Ret("start_task", <<id>>, "Ok", None)

\* TaskManager::cancel_task
cancel_task(id) ==
    /\ UNCHANGED file
    /\ IF id \notin DOMAIN tasks
       THEN /\ ret' = Ret("cancel_task", <<id>>, "TaskNotFound", None)
            /\ UNCHANGED <<tasks, dirty, now>>
       ELSE \E t \in ClockReads(now) :
            /\ now' = t
            /\ tasks' = [tasks EXCEPT ![id] = cancel(@, t)]
            /\ dirty' = TRUE
            /\ ret' = Ret("cancel_task", <<id>>, "Ok", None)

\* a clear_completed that removes the Cancelled tasks with the Done ones
clear_completed_Inactive ==
    LET kept == {k \in DOMAIN tasks : tasks[k].status \notin {"Done", "Cancelled"}}
        removed == Cardinality(DOMAIN tasks) - Cardinality(kept) IN
    /\ tasks' = Restrict(tasks, kept)
    /\ dirty' = TRUE
    /\ ret' = Ret("clear_completed", None, "Ok", Some(removed))
    /\ UNCHANGED <<file, now>>

\* TaskManager::clear_completed
clear_completed ==
    LET kept == {k \in DOMAIN tasks : tasks[k].status # "Done"}
        removed == Cardinality(DOMAIN tasks) - Cardinality(kept) IN
    /\ tasks' = Restrict(tasks, kept)
    /\ dirty' = TRUE
    /\ ret' = Ret("clear_completed", None, "Ok", Some(removed))
    /\ UNCHANGED <<file, now>>

\* TaskManager::clear_all
clear_all ==
    /\ tasks' = EmptyMap
    /\ dirty' = TRUE
    /\ ret' = Ret("clear_all", None, "Ok", Some(Cardinality(DOMAIN tasks)))
    /\ UNCHANGED <<file, now>>

RECURSIVE ImportLoop_Overwrite(_, _, _)
\* the loop without contains_key: an incoming task replaces a stored one
ImportLoop_Overwrite(m, n, list) ==
    IF list = <<>> THEN [tasks |-> m, imported_count |-> n, failed |-> FALSE]
    ELSE LET task == Head(list) IN
         IF ~validate(task)
         THEN [tasks |-> m, imported_count |-> n, failed |-> TRUE]
         ELSE ImportLoop_Overwrite(Insert(m, task.id, task), n + 1, Tail(list))

RECURSIVE ImportLoop(_, _, _)
\* the for loop of import_tasks from the map m with imported_count n:
\* the map, the count and whether the ? operator returned early
ImportLoop(m, n, list) ==
    IF list = <<>> THEN [tasks |-> m, imported_count |-> n, failed |-> FALSE]
    ELSE LET task == Head(list) IN
         IF ~validate(task)
         THEN [tasks |-> m, imported_count |-> n, failed |-> TRUE]
         ELSE IF task.id \notin DOMAIN m
         THEN ImportLoop(Insert(m, task.id, task), n + 1, Tail(list))
         ELSE ImportLoop(m, n, Tail(list))

\* TaskManager::import_tasks
import_tasks(list) ==
    LET r == ImportLoop(tasks, 0, list) IN
    /\ tasks' = r.tasks
    /\ UNCHANGED <<file, now>>
    /\ IF r.failed
       THEN /\ ret' = Ret("import_tasks", <<list>>, "ValidationError", None)
            /\ UNCHANGED dirty
       ELSE /\ dirty' = (dirty \/ r.imported_count > 0)
            /\ ret' = Ret("import_tasks", <<list>>, "Ok", Some(r.imported_count))

----------------------------------------------------------------------------
(* Orderings and string functions the queries use *)

\* std::cmp::Ordering of two integers (DateTime<Utc> ticks, discriminants)
Cmp(a, b) == IF a < b THEN "Less" ELSE IF a > b THEN "Greater" ELSE "Equal"

\* derived Ord for Option<T>: None is less than every Some
CmpOption(a, b) ==
    IF a = None THEN (IF b = None THEN "Equal" ELSE "Less")
    ELSE IF b = None THEN "Greater"
    ELSE Cmp(a[1], b[1])

\* derived Ord for Priority: the order of the discriminants
Discriminant(p) ==
    CASE p = "Low" -> 1 [] p = "Medium" -> 2 [] p = "High" -> 3 [] p = "Critical" -> 4

\* the characters that occur in titles, descriptions and queries, in the order
\* of their bytes: space, A..Z, a..z
Ascii == " ABCDEFGHIJKLMNOPQRSTUVWXYZabcdefghijklmnopqrstuvwxyz"
Chars == {SubSeq(Ascii, i, i) : i \in 1..Len(Ascii)}
Bytes == [c \in Chars |-> CHOOSE i \in 1..Len(Ascii) : SubSeq(Ascii, i, i) = c]
Byte(c) == Bytes[c]

RECURSIVE CmpStr(_, _)
\* Ord for String: byte by byte, a proper prefix is less
CmpStr(a, b) ==
    IF a = "" THEN (IF b = "" THEN "Equal" ELSE "Less")
    ELSE IF b = "" THEN "Greater"
    ELSE LET x == Byte(SubSeq(a, 1, 1))
             y == Byte(SubSeq(b, 1, 1)) IN
         IF x # y THEN Cmp(x, y)
         ELSE CmpStr(SubSeq(a, 2, Len(a)), SubSeq(b, 2, Len(b)))

\* char::to_lowercase: A..Z to a..z, every other character to itself
Lowered ==
    [c \in Chars |->
        IF Byte(c) \in Byte("A")..Byte("Z")
        THEN SubSeq(Ascii, Byte(c) + 26, Byte(c) + 26) ELSE c]
LowerChar(c) == Lowered[c]

RECURSIVE to_lowercase(_)
\* str::to_lowercase
to_lowercase(s) ==
    IF s = "" THEN ""
    ELSE LowerChar(SubSeq(s, 1, 1)) \o to_lowercase(SubSeq(s, 2, Len(s)))

\* str::contains: the pattern occurs at some position (the empty one at every)
contains(s, pat) ==
    \E i \in 1..(Len(s) - Len(pat) + 1) : SubSeq(s, i, i + Len(pat) - 1) = pat

\* an is_overdue that a Cancelled status suppresses as Done does
is_overdue_ActiveOnly(task, t) ==
    IF IsSome(task.due_date)
    THEN task.status \notin {"Done", "Cancelled"} /\ t > task.due_date[1]
    ELSE FALSE

\* Task::is_overdue, its clock read returning t
is_overdue(task, t) ==
    IF IsSome(task.due_date)
    THEN task.status # "Done" /\ t > task.due_date[1]
    ELSE FALSE

TaskSort ==
    {"CreatedAsc", "CreatedDesc", "DueDateAsc", "DueDateDesc",
     "PriorityAsc", "PriorityDesc", "TitleAsc", "TitleDesc"}

\* the comparison get_sorted_tasks sorts with under each TaskSort
compare(sort_by, a, b) ==
    CASE sort_by = "CreatedAsc" -> Cmp(a.created_at, b.created_at)
      [] sort_by = "CreatedDesc" -> Cmp(b.created_at, a.created_at)
      [] sort_by = "DueDateAsc" -> CmpOption(a.due_date, b.due_date)
      [] sort_by = "DueDateDesc" ->
            IF IsSome(a.due_date) /\ IsSome(b.due_date)
            THEN Cmp(b.due_date[1], a.due_date[1])
            ELSE IF IsSome(a.due_date) THEN "Less"
            ELSE IF IsSome(b.due_date) THEN "Greater"
            ELSE "Equal"
      [] sort_by = "PriorityAsc" -> Cmp(Discriminant(a.priority), Discriminant(b.priority))
      [] sort_by = "PriorityDesc" -> Cmp(Discriminant(b.priority), Discriminant(a.priority))
      [] sort_by = "TitleAsc" -> CmpStr(a.title, b.title)
      [] sort_by = "TitleDesc" -> CmpStr(b.title, a.title)

RECURSIVE SortedInsert_Dedup(_, _, _)
\* an insertion that drops a task that compares Equal to one already placed
SortedInsert_Dedup(sort_by, sorted, x) ==
    IF sorted = <<>> THEN <<x>>
    ELSE IF compare(sort_by, x, Head(sorted)) = "Less" THEN <<x>> \o sorted
    ELSE IF compare(sort_by, x, Head(sorted)) = "Equal" THEN sorted
    ELSE <<Head(sorted)>> \o SortedInsert_Dedup(sort_by, Tail(sorted), x)

RECURSIVE SortedInsert(_, _, _)
\* x placed in a sorted list before the first task it is Less than
SortedInsert(sort_by, sorted, x) ==
    IF sorted = <<>> THEN <<x>>
    ELSE IF compare(sort_by, x, Head(sorted)) = "Less" THEN <<x>> \o sorted
    ELSE <<Head(sorted)>> \o SortedInsert(sort_by, Tail(sorted), x)

RECURSIVE StableSort(_, _)
\* slice::sort_by / sort_by_key: a stable sort, tasks that compare Equal keep
\* the order they had in the list
StableSort(sort_by, list) ==
    IF list = <<>> THEN <<>>
    ELSE SortedInsert(sort_by, StableSort(sort_by, SubSeq(list, 1, Len(list) - 1)),
                      list[Len(list)])

----------------------------------------------------------------------------
(* The queries of TaskManager: they take &self *)

\* TaskManager::get_task
get_task(id) ==
    /\ UNCHANGED <<tasks, dirty, file, now>>
    /\ ret' = IF id \in DOMAIN tasks
              THEN Ret("get_task", <<id>>, "Ok", Some(tasks[id]))
              ELSE Ret("get_task", <<id>>, "TaskNotFound", None)

\* whether is_overdue gets as far as Utc::now(): there is a due date and the
\* left operand of && is true
ReadsClock(task) == IsSome(task.due_date) /\ task.status # "Done"

\* task.is_overdue() on the task get_task returned, as handle_show calls it
task_is_overdue(id) ==
    /\ id \in DOMAIN tasks
    /\ UNCHANGED <<tasks, dirty, file>>
    /\ \E t \in (IF ReadsClock(tasks[id]) THEN ClockReads(now) ELSE {now}) :
           /\ now' = t
           /\ ret' = Ret("is_overdue", <<id>>, "Ok", Some(is_overdue(tasks[id], t)))

\* TaskManager::get_all_tasks, collected
get_all_tasks ==
    /\ UNCHANGED <<tasks, dirty, file, now>>
    /\ \E order \in ValueOrders(tasks) :
           ret' = Ret("get_all_tasks", None, "Ok", Some(order))

\* TaskManager::get_tasks_by_status, collected
get_tasks_by_status(status) ==
    /\ UNCHANGED <<tasks, dirty, file, now>>
    /\ \E order \in ValueOrders(tasks) :
           ret' = Ret("get_tasks_by_status", <<status>>, "Ok",
                      Some(SelectSeq(order, LAMBDA task : task.status = status)))

\* TaskManager::get_tasks_by_priority, collected
get_tasks_by_priority(priority) ==
    /\ UNCHANGED <<tasks, dirty, file, now>>
    /\ \E order \in ValueOrders(tasks) :
           ret' = Ret("get_tasks_by_priority", <<priority>>, "Ok",
                      Some(SelectSeq(order, LAMBDA task : task.priority = priority)))

\* TaskManager::get_tasks_by_category, collected
get_tasks_by_category(category) ==
    /\ UNCHANGED <<tasks, dirty, file, now>>
    /\ \E order \in ValueOrders(tasks) :
           ret' = Ret("get_tasks_by_category", <<category>>, "Ok",
                      Some(SelectSeq(order, LAMBDA task :
                               IF IsSome(task.category)
                               THEN task.category[1] = category ELSE FALSE)))

RECURSIVE OverdueRuns(_, _)
\* filter(|task| task.is_overdue()) over a list, the clock at t before it: each
\* task that gets to Utc::now() reads it in turn; the tasks kept and the last
\* value read, for every way the clock can move meanwhile
OverdueRuns(list, t) ==
    IF list = <<>> THEN {[kept |-> <<>>, now |-> t]}
    ELSE LET task == Head(list)
             reads == IF ReadsClock(task) THEN ClockReads(t) ELSE {t} IN
         UNION {{[kept |-> (IF is_overdue(task, u) THEN <<task>> ELSE <<>>) \o r.kept,
                  now |-> r.now] : r \in OverdueRuns(Tail(list), u)} : u \in reads}

\* TaskManager::get_overdue_tasks, collected
get_overdue_tasks ==
    /\ UNCHANGED <<tasks, dirty, file>>
    /\ \E order \in ValueOrders(tasks) : \E r \in OverdueRuns(order, now) :
           /\ now' = r.now
           /\ ret' = Ret("get_overdue_tasks", None, "Ok", Some(r.kept))

\* a search_tasks that looks for the query as it was typed
search_tasks_CaseSensitive(query) ==
    /\ UNCHANGED <<tasks, dirty, file, now>>
    /\ \E order \in ValueOrders(tasks) :
           ret' = Ret("search_tasks", <<query>>, "Ok",
                      Some(SelectSeq(order, LAMBDA task :
                               \/ contains(to_lowercase(task.title), query)
                               \/ IF IsSome(task.description)
                                  THEN contains(to_lowercase(task.description[1]), query)
                                  ELSE FALSE)))

\* TaskManager::search_tasks, collected
search_tasks(query) ==
    LET query_lower == to_lowercase(query) IN
    /\ UNCHANGED <<tasks, dirty, file, now>>
    /\ \E order \in ValueOrders(tasks) :
           ret' = Ret("search_tasks", <<query>>, "Ok",
                      Some(SelectSeq(order, LAMBDA task :
                               \/ contains(to_lowercase(task.title), query_lower)
                               \/ IF IsSome(task.description)
                                  THEN contains(to_lowercase(task.description[1]),
                                                query_lower)
                                  ELSE FALSE)))

\* TaskManager::get_sorted_tasks
get_sorted_tasks(sort_by) ==
    /\ UNCHANGED <<tasks, dirty, file, now>>
    /\ \E order \in ValueOrders(tasks) :
           ret' = Ret("get_sorted_tasks", <<sort_by>>, "Ok",
                      Some(StableSort(sort_by, order)))

\* the tasks of a map with a given status, counted
CountStatus(m, status) == Cardinality({k \in DOMAIN m : m[k].status = status})

\* a completion_rate that is the fraction completed / total, not the percentage
CompletionRate_Fraction(completed, total) ==
    IF total > 0 THEN [num |-> completed, den |-> total]
    ELSE [num |-> 0, den |-> 1]

\* TaskStats.completion_rate, the quotient num / den: (completed / total) * 100
\* when there are tasks, and 0.0 when there are none (the rounding of f64 is
\* not modelled)
CompletionRate(completed, total) ==
    IF total > 0 THEN [num |-> completed * 100, den |-> total]
    ELSE [num |-> 0, den |-> 1]

\* TaskManager::get_stats
get_stats ==
    LET total == Cardinality(DOMAIN tasks)
        completed == CountStatus(tasks, "Done")
        in_progress == CountStatus(tasks, "InProgress") IN
    /\ UNCHANGED <<tasks, dirty, file>>
    /\ \E order \in ValueOrders(tasks) : \E r \in OverdueRuns(order, now) :
           /\ now' = r.now
           /\ ret' = Ret("get_stats", None, "Ok",
                         Some([total |-> total, completed |-> completed,
                               in_progress |-> in_progress,
                               overdue |-> Len(r.kept),
                               completion_rate |-> CompletionRate(completed, total)]))

----------------------------------------------------------------------------
(* The calls a process makes on its manager, in any order *)

\* one more call on the manager
Called == calls < MaxCalls /\ calls' = calls + 1

Load == Called /\ load
Save == Called /\ save
AddTask == Called /\ \E title \in Titles : add_task(title)
AddTaskDetailed ==
    Called /\ \E a \in AddInputs : add_task_detailed(a[1], a[2], a[3], a[4], a[5])
UpdateTask ==
    Called /\ \E id \in Uuids, u \in UpdateInputs :
                  update_task(id, u[1], u[2], u[3], u[4], u[5])
DeleteTask == Called /\ \E id \in Uuids : delete_task(id)
CompleteTask == Called /\ \E id \in Uuids : complete_task(id)
StartTask == Called /\ \E id \in Uuids : start_task(id)
CancelTask == Called /\ \E id \in Uuids : cancel_task(id)
ClearCompleted == Called /\ clear_completed
ClearAll == Called /\ clear_all
ImportTasks == Called /\ \E list \in ImportLists : import_tasks(list)
GetTask == Called /\ \E id \in Uuids : get_task(id)

Next ==
    \/ GetTask
    \/ Load
    \/ Save
    \/ AddTask
    \/ AddTaskDetailed
    \/ UpdateTask
    \/ DeleteTask
    \/ CompleteTask
    \/ StartTask
    \/ CancelTask
    \/ ClearCompleted
    \/ ClearAll
    \/ ImportTasks

Spec == Init /\ [][Next]_vars

----------------------------------------------------------------------------
(* The queries, on the stores a storage file can bring in *)

\* a task as a storage file written by an earlier run holds it
QueryTask(id, title, description, priority, status, category, due_date, t) ==
    [id |-> id, title |-> title, description |-> description,
     priority |-> priority, status |-> status, category |-> category,
     due_date |-> due_date, created_at |-> t, updated_at |-> t,
     completed_at |-> IF status = "Done" THEN Some(t) ELSE None]

QA == QueryTask("u1", "Buy milk", None, "High", "Todo", Some("errands"), Some(0), 0)
QB == QueryTask("u2", "clean House", Some("Buy soap"), "Low", "Done", None, Some(0), 1)
QC == QueryTask("u3", "apple", None, "High", "Cancelled", Some("Errands"), Some(0), 0)
QD == QueryTask("u4", "Buy milk", Some("MILK and eggs"), "Critical", "InProgress",
                None, None, 1)
QE == QueryTask("u5", "Zeta", None, "Low", "Todo", Some("errands"), Some(1), 0)

\* the contents of the storage file when the process starts
QueryStores ==
    { {}, {QA}, {QB}, {QA, QB}, {QA, QD}, {QD, QE}, {QA, QB, QC}, {QA, QD, QE},
      {QB, QC, QD}, {QB, QD, QE}, {QC, QD, QE} }

\* the JSON array of a set of tasks
FileOf(S) ==
    LET n == Cardinality(S)
        s == CHOOSE f \in [1..n -> S] : \A i, j \in 1..n : f[i] = f[j] => i = j
    IN  JsonFile([i \in 1..n |-> ToJson(s[i])])

QueryFiles == {FileOf(S) : S \in QueryStores}

\* the arguments of the queries
SearchQueries == {"", "MILK", "buy", "soap", "zz"}
Categories == {"errands", "Errands", "work"}

\* TaskManager::with_config, the storage path holding one of QueryFiles
InitQuery ==
    /\ tasks = EmptyMap
    /\ dirty = FALSE
    /\ file \in QueryFiles
    /\ now = 0
    /\ calls = 0
    /\ ret = Ret("with_config", None, "Ok", None)

TaskIsOverdue == Called /\ \E id \in DOMAIN tasks : task_is_overdue(id)
GetAllTasks == Called /\ get_all_tasks
GetTasksByStatus == Called /\ \E status \in TaskStatus : get_tasks_by_status(status)
GetTasksByPriority ==
    Called /\ \E priority \in Priority : get_tasks_by_priority(priority)
GetTasksByCategory ==
    Called /\ \E category \in Categories : get_tasks_by_category(category)
GetOverdueTasks == Called /\ get_overdue_tasks
SearchTasks == Called /\ \E query \in SearchQueries : search_tasks(query)
GetSortedTasks == Called /\ \E sort_by \in TaskSort : get_sorted_tasks(sort_by)
GetStats == Called /\ get_stats

NextQuery ==
    \/ Load
    \/ ClearCompleted
    \/ GetTask
    \/ TaskIsOverdue
    \/ GetAllTasks
    \/ GetTasksByStatus
    \/ GetTasksByPriority
    \/ GetTasksByCategory
    \/ GetOverdueTasks
    \/ SearchTasks
    \/ GetSortedTasks
    \/ GetStats

SpecQuery == InitQuery /\ [][NextQuery]_vars

----------------------------------------------------------------------------
(* Properties *)

\* the arguments of the call a step makes, and the task its id names before it
CallIs(op) == ret'.op = op
TargetExists == ret'.args[1] \in DOMAIN tasks
Target == tasks[ret'.args[1]]

\* C1: in every reachable state every task of the task map satisfies the field
\* limits: title of 1..200 characters, description of at most 2000 when
\* present, category of at most 50 when present.
C1_StoredTasksValid ==
    \A k \in DOMAIN tasks :
        /\ Len(tasks[k].title) \in 1..200
        /\ IsSome(tasks[k].description) => Len(tasks[k].description[1]) <= 2000
        /\ IsSome(tasks[k].category) => Len(tasks[k].category[1]) <= 50

\* the task update_task would make of its target with the arguments of the step
Updated ==
    update(Target, now', ret'.args[2], ret'.args[3], ret'.args[4], ret'.args[5],
           ret'.args[6])

\* C2: update_task on an existing id with values that make the task fail
\* validation returns ValidationError and leaves the stored task with the
\* field values it had before the call.
C2_FailedUpdateKeepsTask ==
    [][(CallIs("update_task") /\ TargetExists /\ ~validate(Updated))
          => /\ ret'.kind = "ValidationError"
             /\ LET after == tasks'[ret'.args[1]] IN
                /\ after.title = Target.title
                /\ after.description = Target.description
                /\ after.priority = Target.priority
                /\ after.category = Target.category
                /\ after.due_date = Target.due_date
                /\ after.updated_at = Target.updated_at]_vars

\* C3: import_tasks is all-or-nothing: when a task of the incoming list fails
\* validation it returns ValidationError and the task map is what it was
\* before the call.
C3_FailedImportKeepsMap ==
    [][(CallIs("import_tasks")
            /\ \E i \in DOMAIN ret'.args[1] : ~validate(ret'.args[1][i]))
          => /\ ret'.kind = "ValidationError"
             /\ tasks' = tasks]_vars

\* what a successful add leaves: one more task, under the fresh id it returns,
\* with status Todo and the priority asked for; the other tasks as they were
AddedOne(priority) ==
    /\ ret'.kind = "Ok"
    /\ Len(ret'.val) = 1
    /\ ret'.val[1] \notin DOMAIN tasks
    /\ DOMAIN tasks' = DOMAIN tasks \cup {ret'.val[1]}
    /\ Cardinality(DOMAIN tasks') = Cardinality(DOMAIN tasks) + 1
    /\ \A k \in DOMAIN tasks : tasks'[k] = tasks[k]
    /\ tasks'[ret'.val[1]].id = ret'.val[1]
    /\ tasks'[ret'.val[1]].title = ret'.args[1]
    /\ tasks'[ret'.val[1]].status = "Todo"
    /\ tasks'[ret'.val[1]].priority = priority

\* what a rejected add leaves: the task map and the dirty flag as they were
AddRejected ==
    /\ ret'.kind = "ValidationError"
    /\ tasks' = tasks
    /\ dirty' = dirty

\* C4: with a title of 1..200 characters (and a valid description and
\* category) add succeeds, returns a fresh id and the store holds exactly one
\* more task, with status Todo and the given priority, Medium when none is
\* given; with a title of 0 or of 201 or more characters add returns
\* ValidationError and leaves the task map and the dirty flag unchanged.
C4_AddValidatesTitle ==
    [][/\ CallIs("add_task") =>
            IF Len(ret'.args[1]) \in 1..200
            THEN AddedOne("Medium") ELSE AddRejected
       /\ CallIs("add_task_detailed") =>
            LET a == ret'.args
                fieldsOk == /\ IsSome(a[2]) => Len(a[2][1]) <= 2000
                            /\ IsSome(a[4]) => Len(a[4][1]) <= 50
            IN  /\ (Len(a[1]) \in 1..200 /\ fieldsOk) =>
                       AddedOne(IF IsSome(a[3]) THEN a[3][1] ELSE "Medium")
                /\ (Len(a[1]) = 0 \/ Len(a[1]) >= 201) => AddRejected]_vars

\* a title of 200 characters was accepted with a given priority
C4_Witness ==
    /\ ret.op = "add_task_detailed"
    /\ ret.kind = "Ok"
    /\ Len(ret.args[1]) = 200
    /\ tasks[ret.val[1]].priority = "High"

\* C5: after a save() that succeeds, dirty is false (a save that found dirty
\* true has cleared it), so a second save() writes nothing.
C5_SaveClearsDirty ==
    (ret.op = "save" /\ ret.kind = "Ok") => dirty = FALSE

\* C6: whenever a manager operation other than load changes the task map,
\* dirty is true when the operation returns, on success and on error.
C6_ChangeSetsDirty ==
    [][(tasks' # tasks /\ ~CallIs("load")) => dirty' = TRUE]_vars

\* C7: save() called while dirty is false writes nothing: the storage file
\* and the task map are unchanged and the call returns success; a newly
\* constructed manager has an empty task map and dirty false.
C7_CleanSaveWritesNothing ==
    /\ [](calls = 0 => (tasks = EmptyMap /\ dirty = FALSE))
    /\ [][(CallIs("save") /\ dirty = FALSE)
             => /\ ret'.kind = "Ok"
                /\ file' = file
                /\ tasks' = tasks
                /\ dirty' = FALSE]_vars

\* save returned on a manager that was not dirty and whose empty map differs
\* from the task the storage file holds
C7_Witness ==
    /\ ret.op = "save"
    /\ ret.kind = "Ok"
    /\ dirty = FALSE
    /\ tasks = EmptyMap
    /\ file.kind = "json"
    /\ Len(file.recs) = 1

\* the tasks the storage file holds, keyed by id
FileTasks == InsertAll(EmptyMap, [i \in DOMAIN file.recs |-> FromJson(file.recs[i])])

\* C8: after a load() that returns success the task map holds exactly the
\* tasks of the storage file (none when there is no file), and dirty is false.
C8_LoadReplacesMap ==
    (ret.op = "load" /\ ret.kind = "Ok") =>
        /\ tasks = (IF file.kind = "absent" THEN EmptyMap ELSE FileTasks)
        /\ dirty = FALSE

\* the ids of the tasks of an import list
ListIds(list) == {list[i].id : i \in DOMAIN list}

\* C9: import_tasks skips every incoming task whose id is already a key of the
\* task map: the task stored under that id keeps all its field values; the
\* count it returns is the number of tasks inserted, and the store grows by
\* exactly that count.
C9_ImportSkipsExistingIds ==
    [][CallIs("import_tasks") =>
          /\ \A k \in DOMAIN tasks : k \in DOMAIN tasks' /\ tasks'[k] = tasks[k]
          /\ ret'.kind = "Ok" =>
                /\ DOMAIN tasks' = DOMAIN tasks \cup ListIds(ret'.args[1])
                /\ ret'.val = Some(Cardinality(ListIds(ret'.args[1]) \ DOMAIN tasks))
                /\ Cardinality(DOMAIN tasks') = Cardinality(DOMAIN tasks) + ret'.val[1]]_vars

\* an import of one task whose id was stored, with other field values, and one
\* new task returned 1
C9_Witness ==
    /\ ret.op = "import_tasks"
    /\ ret.kind = "Ok"
    /\ ret.val = Some(1)
    /\ Len(ret.args[1]) = 2
    /\ Cardinality(ListIds(ret.args[1])) = 2
    /\ \E i \in DOMAIN ret.args[1] : tasks[ret.args[1][i].id] # ret.args[1][i]

\* C10: complete_task on a task whose status is Done returns
\* OperationNotAllowed and leaves the task (its status, completed_at and
\* updated_at) and the dirty flag unchanged; on a task in Todo, InProgress or
\* Cancelled it succeeds and sets the status to Done.
C10_CompleteRejectsDone ==
    [][(CallIs("complete_task") /\ TargetExists) =>
          IF Target.status = "Done"
          THEN /\ ret'.kind = "OperationNotAllowed"
               /\ tasks' = tasks
               /\ dirty' = dirty
          ELSE /\ ret'.kind = "Ok"
               /\ tasks'[ret'.args[1]].status = "Done"]_vars

\* complete_task was refused on a task completed before the clock moved on,
\* by a manager that is not dirty
C10_Witness ==
    /\ ret.op = "complete_task"
    /\ ret.kind = "OperationNotAllowed"
    /\ dirty = FALSE
    /\ tasks[ret.args[1]].status = "Done"
    /\ tasks[ret.args[1]].updated_at < now

\* C11: for every store content, get_sorted_tasks(DueDateAsc) and
\* get_sorted_tasks(DueDateDesc) both return every task that has a due date
\* before every task that has none; among the tasks with a due date the order
\* is ascending (resp. descending) by due date.
C11_DueDateSortsUndatedLast ==
    (ret.op = "get_sorted_tasks" /\ ret.args[1] \in {"DueDateAsc", "DueDateDesc"}) =>
        LET sorted == ret.val[1] IN
        \A i, j \in DOMAIN sorted :
            i < j =>
                /\ ~(sorted[i].due_date = None /\ sorted[j].due_date # None)
                /\ (sorted[i].due_date # None /\ sorted[j].due_date # None) =>
                      IF ret.args[1] = "DueDateAsc"
                      THEN sorted[i].due_date[1] <= sorted[j].due_date[1]
                      ELSE sorted[i].due_date[1] >= sorted[j].due_date[1]

\* the tasks that are stored under the same key before and after a step
Kept == DOMAIN tasks \cap DOMAIN tasks'

\* C12: a task's completed_at changes only when a complete operation moves
\* the task into Done, which sets it to the current time; start, cancel and
\* update never change it, and once set it is never cleared, even after the
\* task's status leaves Done.  (load, which replaces the stored tasks by
\* those of the file, is not a change of a task.)
C12_CompletedAtOnlyByComplete ==
    [][~CallIs("load") =>
          \A k \in Kept :
              /\ tasks'[k].completed_at # tasks[k].completed_at =>
                    /\ CallIs("complete_task")
                    /\ ret'.args[1] = k
                    /\ tasks[k].status # "Done"
                    /\ tasks'[k].status = "Done"
              /\ (CallIs("complete_task") /\ ret'.args[1] = k /\ ret'.kind = "Ok") =>
                    /\ IsSome(tasks'[k].completed_at)
                    /\ tasks'[k].completed_at[1] \in now..now'
              /\ IsSome(tasks[k].completed_at) => IsSome(tasks'[k].completed_at)]_vars

\* a task that was completed has been started or cancelled since and keeps
\* its completed_at
C12_Witness ==
    /\ ret.op \in {"start_task", "cancel_task"}
    /\ ret.kind = "Ok"
    /\ tasks[ret.args[1]].status # "Done"
    /\ IsSome(tasks[ret.args[1]].completed_at)

\* the statuses one call of start_task, cancel_task or complete_task can give
\* a stored task whose status is s
StatusStep(s) ==
    LET task == [Task_new("u1", 0, "a") EXCEPT !.status = s] IN
    {start(task, 0).status, cancel(task, 0).status}
        \cup (IF s = "Done" THEN {} ELSE {complete(task, 0, 0).status})

RECURSIVE StatusClosure(_)
\* the statuses reached from those of S by any number of such calls
StatusClosure(S) ==
    LET T == S \cup UNION {StatusStep(s) : s \in S} IN
    IF T = S THEN S ELSE StatusClosure(T)

\* the statuses a task with status s can be brought to by one call or more
ReachedAgain(s) == StatusClosure(StatusStep(s))

\* C13 as claimed: no status is terminal and every status can be revisited:
\* for a stored task in any status, each of the four statuses can be reached
\* again by some sequence of start, complete and cancel calls.
C13_EveryStatusRevisited ==
    \A k \in DOMAIN tasks : ReachedAgain(tasks[k].status) = TaskStatus

\* a call of start_task, cancel_task or complete_task on id that succeeds
StartOk(id) ==
    Called /\ start_task(id) /\ ret'.kind = "Ok" /\ tasks'[id].status = "InProgress"
CancelOk(id) ==
    Called /\ cancel_task(id) /\ ret'.kind = "Ok" /\ tasks'[id].status = "Cancelled"
CompleteOk(id) ==
    Called /\ complete_task(id) /\ ret'.kind = "Ok" /\ tasks'[id].status = "Done"

\* C13, amended: no status is terminal: for a stored task in any status,
\* InProgress, Done and Cancelled can each be reached by start, complete and
\* cancel calls (Done from Done by way of another status), start and cancel
\* succeed from every status of an existing task; Todo, the status a task is
\* created with, is never entered again once left.
C13_NoStatusTerminal ==
    /\ [](\A k \in DOMAIN tasks :
            /\ ReachedAgain(tasks[k].status) = {"InProgress", "Done", "Cancelled"}
            /\ calls < MaxCalls =>
                  /\ ENABLED StartOk(k)
                  /\ ENABLED CancelOk(k)
                  /\ tasks[k].status # "Done" => ENABLED CompleteOk(k))
    /\ [][/\ (CallIs("start_task") /\ TargetExists) =>
                (ret'.kind = "Ok" /\ tasks'[ret'.args[1]].status = "InProgress")
          /\ (CallIs("cancel_task") /\ TargetExists) =>
                (ret'.kind = "Ok" /\ tasks'[ret'.args[1]].status = "Cancelled")
          /\ ~CallIs("load") =>
                \A k \in Kept : tasks'[k].status = "Todo" => tasks[k].status = "Todo"]_vars

\* a task that came Done from a file has left Done and been completed again
C13_Witness ==
    /\ ret.op = "complete_task"
    /\ ret.kind = "Ok"
    /\ tasks[ret.args[1]].status = "Done"
    /\ tasks[ret.args[1]].title = "imported"

\* C14: a successful update changes only the fields it was told to change: a
\* field given as absent (title, priority) or Keep (description, category,
\* due_date) keeps its value, Clear makes the optional field absent, Set
\* replaces it; id, status, created_at and completed_at are never changed by
\* update, and no other task in the store is changed.
C14_UpdateChangesOnlyNamedFields ==
    [][(CallIs("update_task") /\ ret'.kind = "Ok") =>
          LET a == ret'.args
              after == tasks'[a[1]]
              Directed(old, new, uv) ==
                  CASE uv = Keep -> new = old
                    [] uv = Clear -> new = None
                    [] OTHER -> new = Some(uv[2])
          IN  /\ TargetExists
              /\ DOMAIN tasks' = DOMAIN tasks
              /\ \A k \in DOMAIN tasks \ {a[1]} : tasks'[k] = tasks[k]
              /\ after.title = (IF a[2] = None THEN Target.title ELSE a[2][1])
              /\ after.priority = (IF a[4] = None THEN Target.priority ELSE a[4][1])
              /\ Directed(Target.description, after.description, a[3])
              /\ Directed(Target.category, after.category, a[5])
              /\ Directed(Target.due_date, after.due_date, a[6])
              /\ after.id = Target.id
              /\ after.status = Target.status
              /\ after.created_at = Target.created_at
              /\ after.completed_at = Target.completed_at]_vars

\* an update with no title and no priority has set the description and
\* cleared the category of a task that an earlier update gave its title,
\* priority and category
C14_Witness ==
    /\ ret.op = "update_task"
    /\ ret.kind = "Ok"
    /\ ret.args[2] = None
    /\ ret.args[4] = None
    /\ ret.args[5] = Clear
    /\ tasks[ret.args[1]].title = "b"
    /\ tasks[ret.args[1]].priority = "Low"
    /\ tasks[ret.args[1]].description = Some("notes")
    /\ tasks[ret.args[1]].category = None

\* the calls that look a task up by the id they are given
ById ==
    {"get_task", "update_task", "delete_task", "complete_task", "start_task",
     "cancel_task"}

\* C15: get, update, delete, complete, start and cancel called with an id
\* that is not a key of the task map return NotFound (as an error value) and
\* leave the task map and the dirty flag unchanged; delete on an existing id
\* removes exactly that task, returns it, and leaves every other task
\* unchanged.
C15_MissingIdIsNotFound ==
    [][/\ (ret'.op \in ById /\ ~TargetExists) =>
             /\ ret'.kind = "TaskNotFound"
             /\ tasks' = tasks
             /\ dirty' = dirty
       /\ (CallIs("delete_task") /\ TargetExists) =>
             /\ ret'.kind = "Ok"
             /\ ret'.val = Some(Target)
             /\ DOMAIN tasks' = DOMAIN tasks \ {ret'.args[1]}
             /\ \A k \in DOMAIN tasks' : tasks'[k] = tasks[k]]_vars

\* a call by an id that is not stored was refused by a manager that holds
\* another task and is not dirty
C15_Witness ==
    /\ ret.op \in ById
    /\ ret.kind = "TaskNotFound"
    /\ tasks # EmptyMap
    /\ dirty = FALSE

\* the definition of overdue at time t: a due date, a status other than Done,
\* and the due date strictly before t
Overdue(task, t) ==
    /\ task.due_date # None
    /\ task.status # "Done"
    /\ task.due_date[1] < t

\* C16: is_overdue is true exactly when the task has a due date, its status
\* is not Done, and the due date is strictly before the current time; it is
\* false for every task without a due date and for every Done task, and true
\* for a Cancelled task whose due date has passed.  get_overdue_tasks returns
\* exactly the stored tasks for which is_overdue holds: each at most once,
\* every task overdue when the call began, and only tasks overdue when it ended.
C16_OverdueIsDefinition ==
    /\ [](ret.op = "is_overdue" =>
            LET task == tasks[ret.args[1]] IN
            /\ ret.val[1] = Overdue(task, now)
            /\ task.due_date = None => ret.val[1] = FALSE
            /\ task.status = "Done" => ret.val[1] = FALSE
            /\ (task.status = "Cancelled" /\ task.due_date # None
                    /\ task.due_date[1] < now) => ret.val[1] = TRUE)
    /\ [][CallIs("get_overdue_tasks") =>
            LET kept == ret'.val[1] IN
            /\ \A i, j \in DOMAIN kept : kept[i] = kept[j] => i = j
            /\ \A i \in DOMAIN kept :
                   \E k \in DOMAIN tasks : tasks[k] = kept[i] /\ Overdue(tasks[k], now')
            /\ \A k \in DOMAIN tasks :
                   Overdue(tasks[k], now) => \E i \in DOMAIN kept : kept[i] = tasks[k]]_vars

\* is_overdue returned true for a Cancelled task
C16_Witness ==
    /\ ret.op = "is_overdue"
    /\ ret.val = Some(TRUE)
    /\ tasks[ret.args[1]].status = "Cancelled"

\* C17: clear_completed removes exactly the tasks whose status is Done,
\* returns the number removed, and leaves every task with another status in
\* the store unchanged; immediately afterwards get_stats().completed is 0.
\* clear_all returns the previous store size and leaves the store empty.
C17_ClearRemovesDone ==
    [][/\ CallIs("clear_completed") =>
             /\ DOMAIN tasks' = {k \in DOMAIN tasks : tasks[k].status # "Done"}
             /\ \A k \in DOMAIN tasks' : tasks'[k] = tasks[k]
             /\ ret'.val = Some(Cardinality({k \in DOMAIN tasks : tasks[k].status = "Done"}))
             /\ CountStatus(tasks', "Done") = 0
       /\ CallIs("clear_all") =>
             /\ ret'.val = Some(Cardinality(DOMAIN tasks))
             /\ tasks' = EmptyMap]_vars

\* clear_completed removed one task and left a Cancelled one
C17_Witness ==
    /\ ret.op = "clear_completed"
    /\ ret.val = Some(1)
    /\ \E k \in DOMAIN tasks : tasks[k].status = "Cancelled"

\* C18: in every reachable state the task map is keyed by the task's own id:
\* for every key k, the task stored under k has id k, so no two stored tasks
\* share an id; no operation changes the id or created_at of a stored task
\* (load puts the tasks of the file in the place of the stored ones).
C18_KeyedByOwnId ==
    /\ [](/\ \A k \in DOMAIN tasks : tasks[k].id = k
          /\ \A j, k \in DOMAIN tasks : tasks[j].id = tasks[k].id => j = k)
    /\ [][~CallIs("load") =>
            \A k \in Kept :
                /\ tasks'[k].id = tasks[k].id
                /\ tasks'[k].created_at = tasks[k].created_at]_vars

\* two tasks are stored and an update has just stamped one of them after the
\* tick of its creation
C18_Witness ==
    /\ Cardinality(DOMAIN tasks) = 2
    /\ ret.op = "update_task"
    /\ ret.kind = "Ok"
    /\ tasks[ret.args[1]].updated_at > tasks[ret.args[1]].created_at

Inverted(task) == task.updated_at < task.created_at

Queries ==
    {"get_task", "get_all_tasks", "get_tasks_by_status", "get_tasks_by_priority",
     "get_tasks_by_category", "get_overdue_tasks", "search_tasks",
     "get_sorted_tasks", "get_stats"}

\* C20: the query operations get_task, get_all_tasks, get_tasks_by_status,
\* get_tasks_by_priority, get_tasks_by_category, get_overdue_tasks,
\* search_tasks, get_sorted_tasks and get_stats leave the task map and the
\* dirty flag unchanged, and get_sorted_tasks returns every stored task
\* exactly once for every sort criterion.
C20_QueriesReadOnly ==
    [][/\ ret'.op \in Queries => (tasks' = tasks /\ dirty' = dirty)
       /\ CallIs("get_sorted_tasks") =>
             LET sorted == ret'.val[1] IN
             /\ ret'.args[1] \in TaskSort
             /\ Len(sorted) = Cardinality(DOMAIN tasks)
             /\ \A k \in DOMAIN tasks :
                    Cardinality({i \in DOMAIN sorted : sorted[i] = tasks[k]}) = 1]_vars

\* a dirty manager returned its three tasks sorted by title, two of them with
\* the same title
C20_Witness ==
    /\ ret.op = "get_sorted_tasks"
    /\ ret.args[1] = "TitleAsc"
    /\ dirty = TRUE
    /\ Len(ret.val[1]) = 3
    /\ ret.val[1][1].title = ret.val[1][2].title

\* the stored tasks that are overdue at time t, counted
CountOverdue(t) == Cardinality({k \in DOMAIN tasks : Overdue(tasks[k], t)})

\* C21: get_stats returns total = number of stored tasks, completed = number
\* with status Done, in_progress = number with status InProgress, overdue =
\* number of tasks for which is_overdue holds (between the numbers overdue at
\* the clock values before and after the call), with completed + in_progress
\* <= total; completion_rate is 0 when total is 0 and completed*100/total
\* otherwise (100 for a single completed task, 50 for one of two).
C21_StatsCount ==
    [][CallIs("get_stats") =>
          LET stats == ret'.val[1]
              rate == stats.completion_rate IN
          /\ stats.total = Cardinality(DOMAIN tasks)
          /\ stats.completed = Cardinality({k \in DOMAIN tasks : tasks[k].status = "Done"})
          /\ stats.in_progress =
                Cardinality({k \in DOMAIN tasks : tasks[k].status = "InProgress"})
          /\ stats.overdue \in CountOverdue(now)..CountOverdue(now')
          /\ stats.completed + stats.in_progress <= stats.total
          /\ rate.den > 0
          /\ stats.total = 0 => rate.num = 0
          /\ stats.total > 0 => rate.num * stats.total = stats.completed * 100 * rate.den
          /\ (stats.total = 1 /\ stats.completed = 1) => rate.num = 100 * rate.den
          /\ (stats.total = 2 /\ stats.completed = 1) => rate.num = 50 * rate.den]_vars

\* get_stats counted one completed task of two, a rate of 50, and one
\* overdue task
C21_Witness ==
    /\ ret.op = "get_stats"
    /\ ret.val[1].total = 2
    /\ ret.val[1].completed = 1
    /\ ret.val[1].overdue = 1
    /\ ret.val[1].completion_rate.num = 50 * ret.val[1].completion_rate.den

\* two characters that are the same when case is ignored
SameIgnoringCase(c, d) == LowerChar(c) = LowerChar(d)

\* s contains pat ignoring case: at some position of s, pat matches character
\* by character when case is ignored
ContainsIgnoringCase(s, pat) ==
    \E i \in 0..(Len(s) - Len(pat)) :
        \A j \in 1..Len(pat) :
            SameIgnoringCase(SubSeq(s, i + j, i + j), SubSeq(pat, j, j))

\* C22: search_tasks(q) returns exactly the stored tasks whose title contains
\* q ignoring case, or whose description is present and contains q ignoring
\* case; a task with no description matches only through its title, and the
\* result is empty when no task matches.
C22_SearchIgnoresCase ==
    [][CallIs("search_tasks") =>
          LET q == ret'.args[1]
              found == ret'.val[1]
              Matches(task) ==
                  \/ ContainsIgnoringCase(task.title, q)
                  \/ /\ task.description # None
                     /\ ContainsIgnoringCase(task.description[1], q)
              matching == {k \in DOMAIN tasks : Matches(tasks[k])}
          IN  /\ Len(found) = Cardinality(matching)
              /\ \A k \in matching : \E i \in DOMAIN found : found[i] = tasks[k]
              /\ \A i \in DOMAIN found : \E k \in matching : found[i] = tasks[k]
              /\ \A i \in DOMAIN found :
                     found[i].description = None =>
                         ContainsIgnoringCase(found[i].title, q)
              /\ matching = {} => found = <<>>]_vars

\* a query in capitals found a task by its description in small letters and
\* a task with no description by its title
C22_Witness ==
    /\ ret.op = "search_tasks"
    /\ ret.args[1] = "MILK"
    /\ Len(ret.val[1]) = 2
    /\ \E i \in DOMAIN ret.val[1] : ret.val[1][i].description = None
    /\ \E i \in DOMAIN ret.val[1] : ret.val[1][i].description # None

----------------------------------------------------------------------------
(* Export of a loaded store and import of the exported file *)

\* the task that add_task("a") and a rejected update_task(id, Some(""), ..)
\* leave in the map
EmptiedTask == update(Task_new("u1", 0, "a"), 0, Some(""), Keep, None, Keep, Keep)

\* the storage files of the round trip: the query files, the file a save
\* writes after a rejected update, and that file with a second task
RoundTripFiles ==
    QueryFiles \cup {JsonFile(<<ToJson(EmptiedTask)>>),
                     JsonFile(<<ToJson(QB), ToJson(EmptiedTask)>>)}

\* TaskManager::with_config, the storage path holding one of RoundTripFiles
InitRoundTrip ==
    /\ tasks = EmptyMap
    /\ dirty = FALSE
    /\ file \in RoundTripFiles
    /\ now = 0
    /\ calls = 0
    /\ ret = Ret("with_config", None, "Ok", None)

\* handle_export: serde_json::to_string_pretty of get_all_tasks().collect()
Exported(order) == [i \in DOMAIN order |-> ToJson(order[i])]

\* handle_import by a manager whose map is m: serde_json::from_slice of the
\* file, then import_tasks; the map it ends with and the kind of its result
Imported(m, recs) ==
    IF \E i \in DOMAIN recs : ~JsonOk(recs[i])
    THEN [tasks |-> m, kind |-> "JsonError"]
    ELSE LET r == ImportLoop(m, 0, [i \in DOMAIN recs |-> FromJson(recs[i])])
         IN  [tasks |-> r.tasks,
              kind |-> IF r.failed THEN "ValidationError" ELSE "Ok"]

\* handle_export by this manager, then handle_import of the exported file by
\* a manager with an empty store; the files are written and read without an
\* I/O failure. ret keeps the exported file, the result of the import and
\* the importing manager's map.
export_import ==
    /\ UNCHANGED <<tasks, dirty, file, now>>
    /\ \E order \in ValueOrders(tasks) :
           LET recs == Exported(order)
               r == Imported(EmptyMap, recs)
           IN  ret' = Ret("export_import", <<recs>>, r.kind, Some(r.tasks))

ExportImport == Called /\ export_import

NextRoundTrip ==
    \/ Load
    \/ ClearCompleted
    \/ ExportImport

SpecRoundTrip == InitRoundTrip /\ [][NextRoundTrip]_vars

\* C23: round trip: for every store content that a manager can hold after
\* load, exporting all tasks and importing the exported list into an empty
\* store succeeds and yields a store with the same ids and the same field
\* values for every task.
C23_RoundTrip ==
    ret.op = "export_import" => ret.kind = "Ok" /\ ret.val[1] = tasks

----------------------------------------------------------------------------
(* One run of the process: load, one command, auto-save *)

\* a storage file whose second record has a priority serde does not know
MalformedFile ==
    JsonFile(<<ToJson(QA), [ToJson(QB) EXCEPT !.priority = "urgent"]>>)

\* what the storage path holds when a run starts
RunFiles == InitFiles \cup {JsonFile(<<ToJson(QA), ToJson(QB)>>), MalformedFile}

\* main up to TaskManager::with_config
InitRun ==
    /\ tasks = EmptyMap
    /\ dirty = FALSE
    /\ file \in RunFiles
    /\ now = 0
    /\ calls = 0
    /\ ret = Ret("with_config", None, "Ok", None)

\* handle_import returning before import_tasks: the path, the size or the
\* read fails, or the file is not a JSON array of tasks
handle_import_early ==
    /\ UNCHANGED <<tasks, dirty, file, now>>
    /\ \E kind \in {"FileOperationError", "IoError", "JsonError"} :
           ret' = Ret("handle_import", None, kind, None)

HandleImportEarly == Called /\ handle_import_early

\* main: calls counts the steps of the run taken so far, the load first, then
\* the one command of the command line, then the auto-save
NextRun ==
    \/ calls = 0 /\ Load
    \/ calls = 1 /\ AddTaskDetailed
    \/ calls = 1 /\ UpdateTask
    \/ calls = 1 /\ CompleteTask
    \/ calls = 1 /\ StartTask
    \/ calls = 1 /\ CancelTask
    \/ calls = 1 /\ DeleteTask
    \/ calls = 1 /\ ClearAll
    \/ calls = 1 /\ ClearCompleted
    \/ calls = 1 /\ ImportTasks
    \/ calls = 1 /\ HandleImportEarly
    \/ calls = 1 /\ GetTask
    \/ calls = 1 /\ GetAllTasks
    \/ calls = 1 /\ GetSortedTasks
    \/ calls = 1 /\ SearchTasks
    \/ calls = 1 /\ GetStats
    \/ calls = 2 /\ Save

SpecRun == InitRun /\ [][NextRun]_vars

\* the manager calls of the commands list, show, stats and export
ReadOnlyOps == {"get_task", "get_all_tasks", "get_sorted_tasks", "search_tasks",
                "get_stats"}

\* C24: in one process run (load, exactly one command, then auto-save) the
\* storage file is written only when the command succeeded: no step before
\* the auto-save changes the file, and the auto-save after a command that
\* returned an error, or after a read-only command, leaves the file's content
\* unchanged.
C24_WrittenOnlyAfterSuccess ==
    [][/\ ~CallIs("save") => file' = file
       /\ (CallIs("save") /\ (ret.kind # "Ok" \/ ret.op \in ReadOnlyOps)) =>
              file' = file]_vars

\* the auto-save has run after a rejected update: the map holds a task that
\* fails validation and the file holds what it held, valid tasks only
C24_Witness ==
    /\ ret.op = "save"
    /\ \E k \in DOMAIN tasks : ~validate(tasks[k])
    /\ file.kind = "json"
    /\ file.recs # <<>>
    /\ \A i \in DOMAIN file.recs : JsonOk(file.recs[i]) /\ validate(FromJson(file.recs[i]))

\* a storage file that serde_json::from_str refuses, so that load fails
Unparseable(f) ==
    \/ f.kind = "garbage"
    \/ f.kind = "json" /\ \E i \in DOMAIN f.recs : ~JsonOk(f.recs[i])

\* C25: when load() fails at startup (read error or malformed JSON) the
\* failure is not fatal: load leaves the in-memory map empty and dirty false
\* and does not touch the storage file, the command runs against the empty
\* store, and the task records of a storage file that load could not parse
\* are still in the file after the auto-save of that run.
C25_FailedLoadLosesNothing ==
    [][/\ (CallIs("load") /\ ret'.kind # "Ok") =>
              tasks' = EmptyMap /\ dirty' = FALSE /\ file' = file
       /\ (ret.op = "load" /\ ret.kind # "Ok" /\ calls' = calls + 1) =>
              tasks = EmptyMap /\ ~CallIs("load") /\ ~CallIs("save")
       /\ (CallIs("save") /\ ret'.kind = "Ok" /\ Unparseable(file)) =>
              \A i \in DOMAIN file.recs :
                  \E j \in DOMAIN file'.recs : file'.recs[j] = file.recs[i]]_vars

----------------------------------------------------------------------------
(* A store filled by add alone *)

\* TaskManager::with_config with no storage file, and no load
InitAdded ==
    /\ tasks = EmptyMap
    /\ dirty = FALSE
    /\ file = Absent
    /\ now = 0
    /\ calls = 0
    /\ ret = Ret("with_config", None, "Ok", None)

\* the calls that create a task and those that change one in place
NextAdded ==
    \/ AddTask
    \/ AddTaskDetailed
    \/ UpdateTask
    \/ CompleteTask
    \/ StartTask
    \/ CancelTask

SpecAdded == InitAdded /\ [][NextAdded]_vars

\* C26: for every task created through add and changed only through the
\* manager's update, complete, start and cancel operations, in every state:
\* status = Done implies completed_at is present, and a task has completed_at
\* present only if it had it before or this step is a successful
\* complete_task of that task, so a task never completed has it absent.
C26_DoneHasCompletedAt ==
    [][\A k \in DOMAIN tasks' :
          /\ tasks'[k].status = "Done" => IsSome(tasks'[k].completed_at)
          /\ IsSome(tasks'[k].completed_at) =>
                \/ k \in DOMAIN tasks /\ IsSome(tasks[k].completed_at)
                \/ /\ CallIs("complete_task")
                   /\ ret'.kind = "Ok"
                   /\ ret'.args[1] = k
                   /\ k \in DOMAIN tasks]_vars

\* a task made by add was completed, and another made by add never was
C26_Witness ==
    /\ ret.op = "complete_task"
    /\ ret.kind = "Ok"
    /\ tasks[ret.args[1]].status = "Done"
    /\ IsSome(tasks[ret.args[1]].completed_at)
    /\ \E k \in DOMAIN tasks : tasks[k].status # "Done" /\ tasks[k].completed_at = None

====
